---- MODULE Spec2Model ----
(***************************************************************************)
(* A model of the time tracker of src/src/main.rs: the event log kept in   *)
(* the data file, the start / stop / continue commands that append to it,  *)
(* the filter engine that derives read-only views of it, the aggregator    *)
(* that turns a view into a work time or a remaining time, and status.     *)
(*                                                                         *)
(* One action is one run of the program (main): load the data file, run    *)
(* one command, write the data file back when the command is a tracking    *)
(* command.  The wall clock is the variable now; Tick lets it advance      *)
(* between runs, through the readings of ClockReadings.                    *)
(*                                                                         *)
(* Instants are whole seconds (the data file stores them with ts_seconds), *)
(* counted from 00:00:00 UTC of January 1st of the modelled calendar year. *)
(* Strings are tuples of characters; Option<T> is the empty tuple (None)   *)
(* or a one-element tuple (Some).                                          *)
(***************************************************************************)
EXTENDS Integers, Sequences, FiniteSets, TLC

VARIABLES file, now, last

vars == <<file, now, last>>

(***************************************************************************)
(* Bounds of the model.                                                    *)
(***************************************************************************)
MaxLen == 2        \* Spec: tracking commands run on logs shorter than this
LongLen == 5       \* SpecLong: tracking commands run on logs shorter than this
ViewLen == 4       \* SpecView: tracking commands run on logs shorter than this
ShowLen == 3       \* SpecShow: tracking commands run on logs shorter than this
TickSecs == 45     \* the small step of the clock, in seconds

(***************************************************************************)
(* Option<T>                                                               *)
(***************************************************************************)
None == << >>
Some(x) == << x >>
is_some(o) == Len(o) = 1
is_none(o) == Len(o) = 0
unwrap(o) == o[1]
\* Option::or_else, Result::or: a unless it is None, then b
or_else(a, b) == IF is_some(a) THEN a ELSE b

(***************************************************************************)
(* Time: chrono's calendar, restricted to one (non-leap) year and to a     *)
(* fixed local UTC offset.                                                 *)
(***************************************************************************)
SecPerMin == 60
MinPerHour == 60
SecPerHour == MinPerHour * SecPerMin
\* NaiveTime::from_hms(23, 59, 59) is the last second of a day
EndOfDay == (23 * MinPerHour + 59) * SecPerMin + 59
SecPerDay == EndOfDay + 1

CalYear == 2021
DaysInMonth == <<31, 28, 31, 30, 31, 30, 31, 31, 30, 31, 30, 31>>
\* Weekday::num_days_from_monday of January 1st of CalYear (a Friday)
Jan1Weekday == 4
\* the offset of the Local time zone, local = utc + LocalOffset
LocalOffset == SecPerHour

RECURSIVE SumDays(_)
SumDays(m) == IF m = 0 THEN 0 ELSE SumDays(m - 1) + DaysInMonth[m]
DaysBeforeTable == [m \in 1..12 |-> SumDays(m - 1)]
\* days of the year before the first day of month m
DaysBefore(m) == DaysBeforeTable[m]

\* A NaiveDate is its day index in the year, 0 = January 1st.
valid_ymd(y, m, d) ==
    /\ y = CalYear
    /\ m \in 1..12
    /\ d >= 1 /\ d <= DaysInMonth[m]
from_ymd(y, m, d) == DaysBefore(m) + (d - 1)
month(date) == CHOOSE m \in 1..12 :
                   DaysBefore(m) <= date /\ date < DaysBefore(m) + DaysInMonth[m]
day(date) == date - DaysBefore(month(date)) + 1
num_days_from_monday(date) == (date + Jan1Weekday) % 7
\* Datelike::with_day: None when the month has no such day
with_day(date, d) ==
    IF d >= 1 /\ d <= DaysInMonth[month(date)]
    THEN Some(DaysBefore(month(date)) + (d - 1))
    ELSE None

\* A NaiveDateTime is a count of seconds of local time; a DateTime<Utc> a
\* count of seconds of UTC.
and_time(date, tod) == date * SecPerDay + tod
naive_local(utc) == utc + LocalOffset
from_local_datetime(ndt) == ndt - LocalOffset
date_of(ndt) == ndt \div SecPerDay
time_of(ndt) == ndt % SecPerDay
\* Local::today() when the clock reads utc
today(utc) == date_of(naive_local(utc))

(***************************************************************************)
(* Date/time strings of the command line (--at, --from, --to).  A string   *)
(* is kept as the fields it is written with: an optional "Y-M-D" part and  *)
(* up to three ":"-separated numbers, e.g. "2021-03-26 10:00:00" or        *)
(* "8:30"; bad marks a string that no layout matches.                      *)
(***************************************************************************)
TimeStr(d, t) == [date |-> d, time |-> t, bad |-> FALSE]
\* format!("{}:0", s)
append_zero(s) ==
    IF s.time = << >>
    THEN [s EXCEPT !.bad = TRUE]      \* ":0" or "Y-M-D:0", matched by no layout
    ELSE [s EXCEPT !.time = Append(@, 0)]

valid_hms(t) ==
    /\ Len(t) = 3
    /\ t[1] \in 0..23 /\ t[2] \in 0..59 /\ t[3] \in 0..59
from_hms(h, m, s) == (h * MinPerHour + m) * SecPerMin + s

\* NaiveTime::parse_from_str(s, "%H:%M:%S"): Some(second of the day) or None
NaiveTime_parse(s) ==
    IF ~s.bad /\ is_none(s.date) /\ valid_hms(s.time)
    THEN Some(from_hms(s.time[1], s.time[2], s.time[3]))
    ELSE None
\* NaiveDate::parse_from_str(s, "%Y-%m-%d")
NaiveDate_parse(s) ==
    IF ~s.bad /\ is_some(s.date) /\ s.time = << >>
       /\ valid_ymd(unwrap(s.date)[1], unwrap(s.date)[2], unwrap(s.date)[3])
    THEN Some(from_ymd(unwrap(s.date)[1], unwrap(s.date)[2], unwrap(s.date)[3]))
    ELSE None
\* NaiveDateTime::parse_from_str(s, "%Y-%m-%d %H:%M:%S")
NaiveDateTime_parse(s) ==
    IF ~s.bad /\ is_some(s.date) /\ valid_hms(s.time)
       /\ valid_ymd(unwrap(s.date)[1], unwrap(s.date)[2], unwrap(s.date)[3])
    THEN Some(and_time(from_ymd(unwrap(s.date)[1], unwrap(s.date)[2],
                                unwrap(s.date)[3]),
                       from_hms(s.time[1], s.time[2], s.time[3])))
    ELSE None

\* parse_date_time with a bug: the local date and time are taken for UTC
parse_date_time_utc(s, clock) ==
    LET s1 == append_zero(s)
        s2 == append_zero(s1)
        on_today(t) == IF is_none(t) THEN None
                       ELSE Some(and_time(today(clock), unwrap(t)))
    IN  or_else(on_today(NaiveTime_parse(s)),
        or_else(on_today(NaiveTime_parse(s1)),
        or_else(on_today(NaiveTime_parse(s2)),
        or_else(NaiveDateTime_parse(s),
        or_else(NaiveDateTime_parse(s1),
                NaiveDateTime_parse(s2))))))

\* parse_date_time(s) when the clock reads clock: Some(instant), or None
\* where the final unwrap panics.
parse_date_time(s, clock) ==
    LET s1 == append_zero(s)
        s2 == append_zero(s1)
        \* today.and_time(time).unwrap().with_timezone(&Utc)
        on_today(t) == IF is_none(t) THEN None
                       ELSE Some(from_local_datetime(and_time(today(clock), unwrap(t))))
        \* TimeZone::from_local_datetime(&Local, &date_time).unwrap().with_timezone(&Utc)
        local(dt) == IF is_none(dt) THEN None ELSE Some(from_local_datetime(unwrap(dt)))
    IN  or_else(on_today(NaiveTime_parse(s)),
        or_else(on_today(NaiveTime_parse(s1)),
        or_else(on_today(NaiveTime_parse(s2)),
        or_else(local(NaiveDateTime_parse(s)),
        or_else(local(NaiveDateTime_parse(s1)),
                local(NaiveDateTime_parse(s2)))))))

(***************************************************************************)
(* Events and the tracking state machine.                                  *)
(***************************************************************************)
TrackingEvent(k, d, t) == [kind |-> k, description |-> d, time |-> t]
is_start(e) == e.kind = "Start"
is_stop(e) == e.kind = "Stop"
description(e) == e.description

\* Vec::last
last_of(data) == IF Len(data) = 0 THEN None ELSE Some(data[Len(data)])

\* What a command hands back to main: the log, the message printed to the
\* user ("" when none) and whether the run panicked.
Done(data, msg) == [data |-> data, msg |-> msg, panic |-> FALSE]
Panic(data) == [data |-> data, msg |-> "", panic |-> TRUE]

\* event_time with a bug: a string that does not parse is taken for now
event_time_lenient(at, t1) ==
    IF is_none(at) \/ is_none(parse_date_time(unwrap(at), t1)) THEN Some(t1)
    ELSE parse_date_time(unwrap(at), t1)

\* the instant of a pushed event, lines 254 and 290:
\* at.map_or_else(|| Local::now().into(), |at| parse_date_time(&at))
event_time(at, t1) == IF is_none(at) THEN Some(t1) ELSE parse_date_time(unwrap(at), t1)

\* start_should_add with a bug: an empty log is taken for a running one
start_should_add_stopped(l) == is_some(l) /\ is_stop(unwrap(l))

\* should_add of start_tracking, lines 247-250, for l = data.last()
start_should_add(l) == IF is_none(l) THEN TRUE ELSE is_stop(unwrap(l))

\* auto_insert_applies with a bug: the setting is not consulted
auto_insert_always(auto_insert_stop, at) == is_none(at)

\* the guard of the auto-insert arm, line 256
auto_insert_applies(auto_insert_stop, at) == auto_insert_stop /\ is_none(at)

\* the guard of the first match arm, line 258
same_description(desc, last_description) ==
    /\ is_some(desc) /\ is_some(last_description)
    /\ unwrap(desc) = unwrap(last_description)

\* auto_insert with a bug: the synthesized Stop takes the new description
auto_insert_described(data, desc, t1, t2) ==
    data \o << TrackingEvent("Stop", desc, t1), TrackingEvent("Start", desc, t2) >>

\* auto_insert with a bug: the running Start is turned into the Stop
auto_insert_in_place(data, desc, t1, t2) ==
    SubSeq(data, 1, Len(data) - 1)
        \o << TrackingEvent("Stop", None, t1), TrackingEvent("Start", desc, t2) >>

\* the two pushes of lines 265-272
auto_insert(data, desc, t1, t2) ==
    data \o << TrackingEvent("Stop", None, t1), TrackingEvent("Start", desc, t2) >>

\* start_tracking; t1 and t2 are the successive readings of Local::now()
start_tracking(auto_insert_stop, data, desc, at, t1, t2) ==
    LET l == last_of(data)
        last_description == IF is_none(l) THEN None ELSE description(unwrap(l))
        time == event_time(at, t1)
    IN  IF start_should_add(l)
        THEN IF is_none(time)
             THEN Panic(data)
             ELSE Done(Append(data, TrackingEvent("Start", desc, unwrap(time))), "")
        ELSE IF auto_insert_applies(auto_insert_stop, at)
        THEN IF same_description(desc, last_description)
             THEN Done(data, "already running with this description")
             ELSE Done(auto_insert(data, desc, t1, t2), "")
        ELSE IF auto_insert_stop /\ is_some(at)
        THEN Done(data, "auto insert not supported with --at")
        ELSE Done(data, "already running")

\* stop_should_add with a bug: every stop is appended
stop_should_add_always(l) == TRUE

\* stop_should_add with a bug: nothing is appended to an empty log
stop_should_add_nonempty(l) == IF is_none(l) THEN FALSE ELSE is_start(unwrap(l))

\* should_add of stop_tracking, lines 283-286, for l = data.last()
stop_should_add(l) == IF is_none(l) THEN TRUE ELSE is_start(unwrap(l))

\* stop_tracking
stop_tracking(data, desc, at, t1) ==
    LET time == event_time(at, t1)
    IN  IF stop_should_add(last_of(data))
        THEN IF is_none(time)
             THEN Panic(data)
             ELSE Done(Append(data, TrackingEvent("Stop", desc, unwrap(time))), "")
        ELSE Done(data, "already stopped")

\* rfind_start with a bug: the search runs from the front of the log
find_start(data) ==
    LET S == {i \in 1..Len(data) : is_start(data[i])}
    IN  IF S = {} THEN None
        ELSE Some(data[CHOOSE i \in S : \A j \in S : i <= j])

\* data.iter().rev().find(|t| t.is_start())
rfind_start(data) ==
    LET S == {i \in 1..Len(data) : is_start(data[i])}
    IN  IF S = {} THEN None
        ELSE Some(data[CHOOSE i \in S : \A j \in S : j <= i])

\* continue_tracking
continue_tracking(data, t1) ==
    LET l == last_of(data)
    IN  IF is_some(l) /\ is_stop(unwrap(l))
        THEN IF is_some(rfind_start(data))
             THEN Done(Append(data, TrackingEvent("Start",
                                   description(unwrap(rfind_start(data))), t1)), "")
             ELSE Done(data, "")
        ELSE Done(data, "no entries to continue")

(***************************************************************************)
(* The filter engine.                                                      *)
(***************************************************************************)
Date(d) == [tag |-> "Date", v |-> d]
DateTime(dt) == [tag |-> "DateTime", v |-> dt]

\* parse_date_or_date_time(s) when the clock reads clock: Some(DateOrDateTime),
\* or None where the final unwrap panics.
parse_date_or_date_time(s, clock) ==
    LET s1 == append_zero(s)
        s2 == append_zero(s1)
        date(d) == IF is_none(d) THEN None ELSE Some(Date(unwrap(d)))
        date_time(dt) == IF is_none(dt) THEN None ELSE Some(DateTime(unwrap(dt)))
        \* Local::today().and_time(time).unwrap().naive_local()
        on_today(t) == IF is_none(t) THEN None
                       ELSE Some(DateTime(and_time(today(clock), unwrap(t))))
    IN  or_else(date(NaiveDate_parse(s)),
        or_else(date_time(NaiveDateTime_parse(s)),
        or_else(on_today(NaiveTime_parse(s)),
        or_else(on_today(NaiveTime_parse(s1)),
        or_else(on_today(NaiveTime_parse(s2)),
        or_else(date_time(NaiveDateTime_parse(s1)),
                date_time(NaiveDateTime_parse(s2))))))))

\* the strings "all" and "week"
StrAll == <<"a", "l", "l">>
StrWeek == <<"w", "e", "e", "k">>

\* contains with a bug: the pattern is looked for at the start only
starts_with(str, pat) ==
    Len(pat) <= Len(str) /\ \A j \in 1..Len(pat) : str[j] = pat[j]

\* str::contains
contains(str, pat) ==
    \E i \in 0..(Len(str) - Len(pat)) :
        \A j \in 1..Len(pat) : str[i + j] = pat[j]

\* u32 subtraction a - b as the with_day argument: None where no day comes
\* of it.  On underflow a debug build panics at the subtraction and a
\* release build wraps to a value above 2^32 - 7, which with_day rejects, so
\* that the unwrap panics: every build panics.
u32_sub(a, b) == IF a >= b THEN Some(a - b) ELSE None

\* The (filter, from, to) of the "week" arm, lines 329-345; None is a panic.
week_bounds(clock) ==
    LET nowd == today(clock)
        offset == num_days_from_monday(nowd)
        monday_offset == offset
        sunday_offset == 6 - offset
        d == u32_sub(day(nowd), monday_offset)
        from == IF is_none(d) THEN None ELSE with_day(nowd, unwrap(d))
        to == with_day(nowd, day(nowd) + sunday_offset)
    IN  IF is_none(from) \/ is_none(to)
        THEN None
        ELSE Some([filter |-> None, from |-> Date(unwrap(from)),
                   to |-> Date(unwrap(to))])

\* to_of_from with a bug: to is from itself, an instant too
to_of_from_same(from) == from

\* the default of to, lines 354-357
to_of_from(from) == IF from.tag = "DateTime" THEN Date(date_of(from.v)) ELSE from

\* (filter, from, to) once from and to are resolved; None is a panic
resolved(filter, f, t) ==
    IF is_none(f) \/ is_none(t) THEN None
    ELSE Some([filter |-> filter, from |-> unwrap(f), to |-> unwrap(t)])

\* The (filter, from, to) of the other arm, lines 346-360; None is a panic.
given_bounds(from, to, filter, clock) ==
    LET f == IF is_none(from) THEN Some(Date(today(clock)))
             ELSE parse_date_or_date_time(unwrap(from), clock)
        t == IF is_some(to) THEN parse_date_or_date_time(unwrap(to), clock)
             ELSE IF is_none(f) THEN None
             ELSE Some(to_of_from(unwrap(f)))
    IN  resolved(filter, f, t)

\* the first .filter closure, lines 364-386 (timestamp_millis of instants
\* that are whole seconds: the seconds are compared)
passes_from(entry, filter, from) ==
    IF filter = Some(StrAll) THEN TRUE
    ELSE IF from.tag = "Date"
         THEN entry.time >= from_local_datetime(and_time(from.v, from_hms(0, 0, 0)))
         ELSE entry.time >= from_local_datetime(from.v)

\* the second .filter closure, lines 387-409
passes_to(entry, filter, to) ==
    IF filter = Some(StrAll) THEN TRUE
    ELSE IF to.tag = "Date"
         THEN entry.time <= from_local_datetime(and_time(to.v, from_hms(23, 59, 59)))
         ELSE entry.time <= from_local_datetime(to.v)

\* passes_text with a bug: an event without a description never passes
passes_text_described(entry, filter) ==
    IF is_none(filter) THEN TRUE
    ELSE IF is_some(entry.description)
         THEN unwrap(filter) = StrAll \/ contains(unwrap(entry.description), unwrap(filter))
         ELSE FALSE

\* the third .filter closure, lines 410-420
passes_text(entry, filter) ==
    IF is_none(filter) THEN TRUE
    ELSE IF is_some(entry.description)
         THEN unwrap(filter) = StrAll \/ contains(unwrap(entry.description), unwrap(filter))
         ELSE unwrap(filter) = StrAll

\* skip_while_stop with a bug: only the first event is looked at
skip_first_stop(seq) ==
    IF seq # << >> /\ is_stop(Head(seq)) THEN Tail(seq) ELSE seq

RECURSIVE skip_while_stop(_)
\* .skip_while(|entry| TrackingEvent::is_stop(entry))
skip_while_stop(seq) ==
    IF seq # << >> /\ is_stop(Head(seq)) THEN skip_while_stop(Tail(seq)) ELSE seq

\* the three .filter closures of lines 364-420 for resolved bounds b
retained(data, b) ==
    LET keep(entry) == /\ passes_from(entry, b.filter, b.from)
                       /\ passes_to(entry, b.filter, b.to)
                       /\ passes_text(entry, b.filter)
    IN  SelectSeq(data, keep)

\* the iterator chain of lines 362-422 for resolved bounds b
select_events(data, b) == skip_while_stop(retained(data, b))

\* filter_events: the view returned, or a panic
filter_events(data, from, to, filter, clock) ==
    LET b == IF filter = Some(StrWeek) THEN week_bounds(clock)
             ELSE given_bounds(from, to, filter, clock)
    IN  IF is_none(b) THEN [view |-> << >>, panic |-> TRUE]
        ELSE [view |-> select_events(data, unwrap(b)), panic |-> FALSE]

(***************************************************************************)
(* The aggregator.  An instant of the clock has a part below the second,   *)
(* which the instants of the log (stored in whole seconds) do not have; a  *)
(* Duration is, as in chrono, a count of seconds and a count of            *)
(* nanoseconds in 0..NanosPerSec-1 on top of it.                           *)
(***************************************************************************)
NanosPerSec == 1000000000
Instant(secs, nanos) == [secs |-> secs, nanos |-> nanos]
Duration(secs, nanos) == [secs |-> secs, nanos |-> nanos]
Duration_zero == Duration(0, 0)

\* DateTime - DateTime
signed_duration_since(a, b) ==
    IF a.nanos >= b.nanos
    THEN Duration(a.secs - b.secs, a.nanos - b.nanos)
    ELSE Duration(a.secs - b.secs - 1, a.nanos - b.nanos + NanosPerSec)
\* Duration::checked_add (the sums of the model are far from overflow)
checked_add(a, b) ==
    IF a.nanos + b.nanos >= NanosPerSec
    THEN Duration(a.secs + b.secs + 1, a.nanos + b.nanos - NanosPerSec)
    ELSE Duration(a.secs + b.secs, a.nanos + b.nanos)
\* the division of Rust's integers, which truncates toward zero
trunc_div(a, b) == IF a >= 0 THEN a \div b ELSE -((-a) \div b)
\* Duration::num_seconds, num_minutes, num_hours
num_seconds(d) == IF d.secs < 0 /\ d.nanos > 0 THEN d.secs + 1 ELSE d.secs
num_minutes(d) == trunc_div(num_seconds(d), SecPerMin)
num_hours(d) == trunc_div(num_seconds(d), SecPerHour)

\* Timelike::with_second(0): the second of the minute is set to zero, the
\* part below the second stays
with_second_zero(t) == [t EXCEPT !.secs = @ - (@ % SecPerMin)]

\* event_time_of with a bug: the seconds are dropped whatever the flag
event_time_truncated(e, include_seconds) == with_second_zero(Instant(e.time, 0))

\* TrackingEvent::time, lines 163-174
event_time_of(e, include_seconds) ==
    IF include_seconds THEN Instant(e.time, 0) ELSE with_second_zero(Instant(e.time, 0))

\* open_interval with a bug: a running Start counts for nothing
open_interval_ignored(start, include_seconds, utc_now) == Duration_zero

\* the (Some(start), None) arm of get_time_from_events, lines 438-449, when
\* Utc::now() reads utc_now
open_interval(start, include_seconds, utc_now) ==
    LET n == IF include_seconds THEN utc_now ELSE with_second_zero(utc_now)
    IN  signed_duration_since(n, event_time_of(start, include_seconds))

RECURSIVE get_time_from_events(_, _, _)
\* get_time_from_events, lines 425-454
get_time_from_events(data, include_seconds, utc_now) ==
    IF Len(data) >= 2
    THEN checked_add(
             signed_duration_since(event_time_of(data[2], include_seconds),
                                   event_time_of(data[1], include_seconds)),
             get_time_from_events(SubSeq(data, 3, Len(data)), include_seconds, utc_now))
    ELSE IF Len(data) = 1
    THEN open_interval(data[1], include_seconds, utc_now)
    ELSE Duration_zero

\* split_duration, lines 312-320: <<hours, minutes, seconds>>
split_duration(duration) ==
    LET hours == num_hours(duration)
        hours_in_minutes == hours * MinPerHour
        hours_in_seconds == hours_in_minutes * SecPerMin
        minutes == num_minutes(duration) - hours_in_minutes
        minutes_in_seconds == minutes * SecPerMin
        seconds == num_seconds(duration) - hours_in_seconds - minutes_in_seconds
    IN  <<hours, minutes, seconds>>

\* Settings, as far as show reads them: the two time goals
TimeGoal(hours, minutes) == [hours |-> hours, minutes |-> minutes]
Settings(daily, weekly) == [time_goal |-> [daily |-> daily, weekly |-> weekly]]

\* get_remaining_minutes with a bug: the daily goal whatever the scope
get_remaining_minutes_daily(settings, filter, hours, minutes) ==
    LET total == minutes + hours * MinPerHour
        time_goal == settings.time_goal.daily
    IN  (time_goal.minutes + time_goal.hours * MinPerHour) - total

\* get_remaining_minutes, lines 456-465
get_remaining_minutes(settings, filter, hours, minutes) ==
    LET total == minutes + hours * MinPerHour
        time_goal == IF filter = StrWeek THEN settings.time_goal.weekly
                     ELSE settings.time_goal.daily
        required == time_goal.minutes + time_goal.hours * MinPerHour
    IN  required - total

\* i64::min
min(a, b) == IF a <= b THEN a ELSE b

\* What show hands back: the view it worked on, its work time, the message
\* printed to the user ("" when none), the <<hours, minutes, seconds>> it
\* printed (None when it printed none) and whether the run panicked.
Shown(view, work_time, time) ==
    [view |-> view, work_time |-> work_time, msg |-> "", time |-> Some(time),
     panic |-> FALSE]
ShowRejected(view, work_time) ==
    [view |-> view, work_time |-> work_time,
     msg |-> "remaining only works when from and to are not set and with no filter or filter week",
     time |-> None, panic |-> FALSE]
ShowPanic == [view |-> << >>, work_time |-> Duration_zero, msg |-> "", time |-> None,
              panic |-> TRUE]

\* remaining_accepted with a bug: --to is not looked at
remaining_accepted_from(from, to, filter) ==
    (filter = StrWeek \/ filter = << >>) /\ is_none(from)

\* the test of line 483, for filter.clone().unwrap_or_default()
remaining_accepted(from, to, filter) ==
    (filter = StrWeek \/ filter = << >>) /\ is_none(from) /\ is_none(to)

\* the re-filter of line 488: data is, by then, the view of line 477
week_of_view(log, view, clock) == filter_events(view, None, None, Some(StrWeek), clock)

\* show, lines 467-518, when the clock reads clock in filter_events and
\* utc_now in get_time_from_events
show(settings, log, from, to, filter_arg, include_seconds, remaining, clock, utc_now) ==
    LET data == filter_events(log, from, to, filter_arg, clock)
        work_time == get_time_from_events(data.view, include_seconds, utc_now)
        hms == split_duration(work_time)
        filter == IF is_none(filter_arg) THEN << >> ELSE unwrap(filter_arg)
        remaining_minutes == get_remaining_minutes(settings, filter, hms[1], hms[2])
        week == week_of_view(log, data.view, clock)
        week_hms == split_duration(get_time_from_events(week.view, include_seconds,
                                                        utc_now))
        remaining_minutes_week ==
            get_remaining_minutes(settings, StrWeek, week_hms[1], week_hms[2])
        reported == IF filter # StrWeek THEN min(remaining_minutes, remaining_minutes_week)
                    ELSE remaining_minutes
        hours == trunc_div(reported, MinPerHour)
    IN  IF data.panic THEN ShowPanic
        ELSE IF ~remaining THEN Shown(data.view, work_time, hms)
        ELSE IF ~remaining_accepted(from, to, filter)
             THEN ShowRejected(data.view, work_time)
        ELSE IF filter # StrWeek /\ week.panic THEN ShowPanic
        ELSE Shown(data.view, work_time, <<hours, reported - hours * MinPerHour, 0>>)

\* status with a bug: any last event counts as tracking
status_any(data) ==
    IF is_some(last_of(data)) THEN 0 ELSE -1

\* What status hands back, lines 520-550: the argument of
\* std::process::exit.
status(data) ==
    LET l == last_of(data)
    IN  IF is_some(l) THEN (IF is_start(unwrap(l)) THEN 0 ELSE -1) ELSE -1

\* the exit status of a process that calls exit(code): the low eight bits
exit_status(code) == code % 256

(***************************************************************************)
(* Inputs of the runs.                                                     *)
(***************************************************************************)
Descriptions == {None, Some(<<"a", "b">>), Some(<<"b">>)}
StopDescriptions == {None, Some(<<"b">>)}
\* --at: absent, "Y-03-20 10", and "Y-03-20", which parse_date_time cannot
\* parse
AtInputs == {None,
             Some(TimeStr(Some(<<CalYear, 3, 20>>), <<10>>)),
             Some(TimeStr(Some(<<CalYear, 3, 20>>), << >>))}
\* --from: absent, "Y-03-28", "9:0:30"
FromInputs == {None,
               Some(TimeStr(Some(<<CalYear, 3, 28>>), << >>)),
               Some(TimeStr(None, <<9, 0, 30>>))}
\* --to: absent, "Y-03-28 9:0"
ToInputs == {None, Some(TimeStr(Some(<<CalYear, 3, 28>>), <<9, 0>>))}
\* the filter argument: absent, "all", "week", "b"
FilterInputs == {None, Some(StrAll), Some(StrWeek), Some(<<"b">>)}

\* the strings "meeting", "coding" and "in"
StrMeeting == <<"m", "e", "e", "t", "i", "n", "g">>
StrCoding == <<"c", "o", "d", "i", "n", "g">>
StrIn == <<"i", "n">>
\* the inputs of the runs of SpecView
ViewDescriptions == {Some(StrMeeting), Some(StrCoding)}
ViewStopDescriptions == {None, Some(StrMeeting), Some(StrCoding)}
\* --from: absent, "Y-03-28", "9:0:30", "9:0:45"
ViewFromInputs == FromInputs \cup {Some(TimeStr(None, <<9, 0, 45>>))}
\* the filter argument: absent, "meeting", "in"
ViewFilterInputs == {None, Some(StrMeeting), Some(StrIn)}

\* the inputs of the runs of SpecShow
ShowDescriptions == {Some(<<"b">>)}
ShowStopDescriptions == {None}
\* --at: absent, "Y-03-27 9" (the day before the start of the clock)
ShowAtInputs == {None, Some(TimeStr(Some(<<CalYear, 3, 27>>), <<9>>))}
FilterData(from, to, filter) == [from |-> from, to |-> to, filter |-> filter]
\* the filter of show: none, "week", "b", --from "9:0:30" without a token
\* and with "week", --to "Y-03-28 9:0"
ShowFilterInputs ==
    {FilterData(None, None, None), FilterData(None, None, Some(StrWeek)),
     FilterData(None, None, Some(<<"b">>)),
     FilterData(Some(TimeStr(None, <<9, 0, 30>>)), None, None),
     FilterData(Some(TimeStr(None, <<9, 0, 30>>)), None, Some(StrWeek)),
     FilterData(None, Some(TimeStr(Some(<<CalYear, 3, 28>>), <<9, 0>>)), None)}
\* the filter of show without --remaining: none, "b", --to "Y-03-28 9:0"
WorkFilterInputs ==
    {FilterData(None, None, None), FilterData(None, None, Some(<<"b">>)),
     FilterData(None, Some(TimeStr(Some(<<CalYear, 3, 28>>), <<9, 0>>)), None)}
\* the time goals: 8h0m a day and 40h0m a week, 8h0m a day and 8h0m a week
NoSettings == Settings(TimeGoal(0, 0), TimeGoal(0, 0))
ShowSettings == {Settings(TimeGoal(8, 0), TimeGoal(40, 0)),
                 Settings(TimeGoal(8, 0), TimeGoal(8, 0))}
\* the part of a reading of the clock below the second, in nanoseconds
SubSecs == {0, NanosPerSec \div 2}
\* the inputs of get_remaining_minutes in SpecGoal
GoalSettings == {Settings(d, w) : d \in {TimeGoal(8, 0), TimeGoal(7, 30)},
                                  w \in {TimeGoal(40, 0), TimeGoal(38, 30)}}
GoalScopes == {<< >>, StrWeek, <<"b">>}
GoalHours == {0, 6, 9, 41}
GoalMinutes == {0, 30, 59}

\* the clock at the start: Sunday, March 28th, 09:00:00 local time
StartClock == from_local_datetime(and_time(from_ymd(CalYear, 3, 28), from_hms(9, 0, 0)))
\* the readings of the clock: the start, a little later, and the next day
\* (Monday, March 29th) at the same time
ClockReadings == {StartClock, StartClock + TickSecs, StartClock + SecPerDay}

\* the readings of the clock in SpecShow and SpecRemaining: 09:00:00, a
\* little later, 09:30:00 and 09:45:00 of the same day, and the next day
ShowReadings == {StartClock, StartClock + TickSecs, StartClock + 30 * SecPerMin,
                 StartClock + 45 * SecPerMin, StartClock + SecPerDay}

(***************************************************************************)
(* The data file and the runs of the program (main).                       *)
(***************************************************************************)
\* the data file before the first run: absent, or present with a content
\* that does not deserialize
FilesAtStart == {[kind |-> "missing", events |-> << >>],
                 [kind |-> "corrupt", events |-> << >>]}

\* read_data(path).unwrap_or_default(): a missing file is an empty log, and
\* so is a file that does not deserialize
read_data(f) == IF f.kind = "ok" THEN f.events ELSE << >>
\* write_data
write_data(data) == [kind |-> "ok", events |-> data]

Log == read_data(file)

\* what is remembered of the last run: the command and its inputs, the log
\* it loaded (pre) and the data file it loaded it from (loaded), the clock
\* it read (t1, and t2 when it read it again), and what it did
\* and, of a show run: its flags, the settings, the reading of Utc::now(),
\* the work time and the <<hours, minutes, seconds>> printed; of a status
\* run: the exit status (value)
Run(cmd, auto, desc, at, from, to, filter, pre, t1, t2, msg, panic, view) ==
    [cmd |-> cmd, auto |-> auto, description |-> desc, at |-> at,
     from |-> from, to |-> to, filter |-> filter, pre |-> pre, t1 |-> t1,
     t2 |-> t2, msg |-> msg, panic |-> panic, view |-> view,
     include_seconds |-> FALSE, remaining |-> FALSE, settings |-> NoSettings,
     utc_now |-> Instant(t1, 0), work_time |-> Duration_zero, time |-> None,
     value |-> 0, loaded |-> file]

Init ==
    /\ file \in FilesAtStart
    /\ now = StartClock
    /\ last = Run("none", FALSE, None, None, None, None, None, << >>, StartClock,
                  StartClock, "", FALSE, << >>)

\* the clock advances between two runs
Tick ==
    /\ \E t \in ClockReadings : t > now /\ now' = t
    /\ UNCHANGED <<file, last>>

\* the readings of the clock a run may get after it has read now
LaterReadings == {t \in ClockReadings : now <= t /\ t <= now + TickSecs}

\* main, lines 599-613 and 681-683, for a tracking command whose outcome is
\* r: the file is written unless the run panicked
Finish(r, t2, maxLen) ==
    /\ Len(Log) < maxLen
    /\ file' = IF r.panic THEN file ELSE write_data(r.data)
    /\ now' = t2

\* Command::Start
StartWith(autos, descs, ats, maxLen) ==
    \E auto \in autos, desc \in descs, at \in ats, t2 \in LaterReadings :
        \E r \in {start_tracking(auto, Log, desc, at, now, t2)} :
            /\ (t2 # now => Len(r.data) = Len(Log) + 2)
            /\ Finish(r, t2, maxLen)
            /\ last' = Run("start", auto, desc, at, None, None, None, Log, now, t2,
                           r.msg, r.panic, << >>)

StartCmd(ats, maxLen) == StartWith(BOOLEAN, Descriptions, ats, maxLen)

\* Command::Stop
StopWith(descs, ats, maxLen) ==
    \E desc \in descs, at \in ats :
        \E r \in {stop_tracking(Log, desc, at, now)} :
            /\ Finish(r, now, maxLen)
            /\ last' = Run("stop", FALSE, desc, at, None, None, None, Log, now, now,
                           r.msg, r.panic, << >>)

StopCmd(ats, maxLen) == StopWith(StopDescriptions, ats, maxLen)

\* Command::Continue
ContinueCmd(maxLen) ==
    \E r \in {continue_tracking(Log, now)} :
        /\ Finish(r, now, maxLen)
        /\ last' = Run("continue", FALSE, None, None, None, None, None, Log, now, now,
                       r.msg, r.panic, << >>)

\* Command::List
ListWith(froms, tos, filters) ==
    \E from \in froms, to \in tos, filter \in filters :
        \E r \in {filter_events(Log, from, to, filter, now)} :
            /\ last' = Run("list", FALSE, None, None, from, to, filter, Log, now, now,
                           "", r.panic, r.view)
            /\ UNCHANGED <<file, now>>

ListCmd == ListWith(FromInputs, ToInputs, FilterInputs)

\* Command::Show
ShowWith(fds, flags, remainings, goals, subsecs) ==
    \E fd \in fds, include_seconds \in flags, remaining \in remainings,
       settings \in goals, nanos \in subsecs :
        \E r \in {show(settings, Log, fd.from, fd.to, fd.filter, include_seconds,
                        remaining, now, Instant(now, nanos))} :
            /\ last' = [Run("show", FALSE, None, None, fd.from, fd.to, fd.filter,
                             Log, now, now, r.msg, r.panic, r.view)
                            EXCEPT !.include_seconds = include_seconds,
                                   !.remaining = remaining,
                                   !.settings = settings,
                                   !.utc_now = Instant(now, nanos),
                                   !.work_time = r.work_time,
                                   !.time = r.time]
            /\ UNCHANGED <<file, now>>

\* show without --remaining (the goals are not read)
ShowCmd == ShowWith(WorkFilterInputs, BOOLEAN, {FALSE}, {NoSettings}, SubSecs)
\* show --remaining
RemainingCmd == ShowWith(ShowFilterInputs, BOOLEAN, {TRUE}, ShowSettings, {0})

\* Command::Status: the process exits in status, nothing is written
StatusCmd ==
    /\ last' = [Run("status", FALSE, None, None, None, None, None, Log, now, now,
                     "", FALSE, << >>)
                    EXCEPT !.value = exit_status(status(Log))]
    /\ UNCHANGED <<file, now>>

Start == StartCmd(AtInputs, MaxLen)
Stop == StopCmd(AtInputs, MaxLen)
Continue == ContinueCmd(MaxLen)

Next == Tick \/ Start \/ Stop \/ Continue \/ ListCmd \/ StatusCmd

Spec == Init /\ [][Next]_vars

\* Long logs: the tracking commands without --at.
LongStart == StartCmd({None}, LongLen)
LongStop == StopCmd({None}, LongLen)
LongContinue == ContinueCmd(LongLen)

NextLong == LongStart \/ LongStop \/ LongContinue

SpecLong == Init /\ [][NextLong]_vars

\* Views by text: described events without --at, listed by text.
ViewStart == StartWith({FALSE}, ViewDescriptions, {None}, ViewLen)
ViewStop == StopWith(ViewStopDescriptions, {None}, ViewLen)
ViewList == ListWith(ViewFromInputs, {None}, ViewFilterInputs)

NextView == Tick \/ ViewStart \/ ViewStop \/ ViewList

SpecView == Init /\ [][NextView]_vars

\* Work times: events with and without --at, shown under every flag.
ShowTick ==
    /\ \E t \in ShowReadings : t > now /\ now' = t
    /\ UNCHANGED <<file, last>>
ShowStart == StartWith({FALSE}, ShowDescriptions, ShowAtInputs, ShowLen)
ShowStop == StopWith(ShowStopDescriptions, {None}, ShowLen)

NextShow == ShowTick \/ ShowStart \/ ShowStop \/ ShowCmd

SpecShow == Init /\ [][NextShow]_vars

\* Remaining times: the same events, shown with --remaining.
NextRemaining == ShowTick \/ ShowStart \/ ShowStop \/ RemainingCmd

SpecRemaining == Init /\ [][NextRemaining]_vars

\* get_remaining_minutes on its own: one call per step
RemainingCall ==
    \E settings \in GoalSettings, scope \in GoalScopes, hours \in GoalHours,
       minutes \in GoalMinutes :
        /\ last' = [Run("remaining", FALSE, None, None, None, None, Some(scope),
                         Log, now, now, "", FALSE, << >>)
                        EXCEPT !.settings = settings,
                               !.time = Some(<<hours, minutes, 0>>),
                               !.value = get_remaining_minutes(settings, scope, hours,
                                                               minutes)]
        /\ UNCHANGED <<file, now>>

NextGoal == RemainingCall

SpecGoal == Init /\ [][NextGoal]_vars

(***************************************************************************)
(* The claims.  They are stated on the last run: last.pre is the log the   *)
(* run loaded and Log the log of the data file after it.                   *)
(***************************************************************************)
Alternates(seq) == \A i \in 1..(Len(seq) - 1) : seq[i].kind # seq[i + 1].kind
IsPrefix(a, b) == Len(a) <= Len(b) /\ SubSeq(b, 1, Len(a)) = a
EndsIn(seq, k) == seq # << >> /\ seq[Len(seq)].kind = k
EmptyOrEndsIn(seq, k) == seq = << >> \/ EndsIn(seq, k)
\* the log after the run is the log before it and the events evs
Appended(evs) == Log = last.pre \o evs

\* the string is written in one of the supported layouts of --at: one to
\* three time fields, after a date or not
Supported(str) ==
    /\ ~str.bad
    /\ Len(str.time) \in 1..3
    /\ str.time[1] \in 0..23
    /\ \A i \in 2..Len(str.time) : str.time[i] \in 0..59
    /\ is_some(str.date) =>
           valid_ymd(unwrap(str.date)[1], unwrap(str.date)[2], unwrap(str.date)[3])
\* the field i of the time of day str is written with, 0 when left out
Field(str, i) == IF i <= Len(str.time) THEN str.time[i] ELSE 0
\* instant t, seen in local time, is the date and time of day that str
\* names (today's date, for a run at clock, when str names no date)
Names(str, clock, t) ==
    /\ time_of(naive_local(t)) = from_hms(Field(str, 1), Field(str, 2), Field(str, 3))
    /\ date_of(naive_local(t)) =
           IF is_some(str.date)
           THEN from_ymd(unwrap(str.date)[1], unwrap(str.date)[2], unwrap(str.date)[3])
           ELSE date_of(naive_local(clock))
\* t is the instant the run was asked to record
Requested(t) ==
    IF is_none(last.at) THEN t = last.t1 ELSE Names(unwrap(last.at), last.t1, t)
AtUsable == is_none(last.at) \/ Supported(unwrap(last.at))

C2_StartAppendsOne ==
    (last.cmd = "start" /\ EmptyOrEndsIn(last.pre, "Stop") /\ AtUsable) =>
        /\ ~last.panic
        /\ Len(Log) = Len(last.pre) + 1
        /\ IsPrefix(last.pre, Log)
        /\ is_start(Log[Len(Log)])
        /\ description(Log[Len(Log)]) = last.description
        /\ Requested(Log[Len(Log)].time)

\* a start with --at and a description was appended to a log ending in Stop
C2_Witness ==
    /\ last.cmd = "start" /\ EndsIn(last.pre, "Stop")
    /\ is_some(last.at) /\ is_some(last.description) /\ ~last.panic
    /\ Len(Log) = Len(last.pre) + 1

\* C3: on a log that is empty or ends in Start, stop with an absent or
\* supported --at appends exactly one Stop event with the given description
\* and instant; on a log that ends in Stop, stop leaves the log unchanged.
C3_StopAppendsOne ==
    /\ (last.cmd = "stop" /\ EmptyOrEndsIn(last.pre, "Start") /\ AtUsable) =>
           /\ ~last.panic
           /\ Len(Log) = Len(last.pre) + 1
           /\ IsPrefix(last.pre, Log)
           /\ is_stop(Log[Len(Log)])
           /\ description(Log[Len(Log)]) = last.description
           /\ Requested(Log[Len(Log)].time)
    /\ (last.cmd = "stop" /\ EndsIn(last.pre, "Stop")) =>
           ~last.panic /\ Log = last.pre

\* a stop with --at was appended to a log ending in Start
C3_Witness ==
    /\ last.cmd = "stop" /\ EndsIn(last.pre, "Start")
    /\ is_some(last.at) /\ ~last.panic
    /\ Len(Log) = Len(last.pre) + 1

\* a stop was rejected on a log ending in Stop
C3_WitnessRejected ==
    /\ last.cmd = "stop" /\ EndsIn(last.pre, "Stop") /\ Log = last.pre

\* the events of seq that are Start events
Starts(seq) == {i \in 1..Len(seq) : is_start(seq[i])}
\* i is the nearest Start event before the end of seq
NearestStart(seq, i) == i \in Starts(seq) /\ \A j \in Starts(seq) : j <= i

\* C4 as stated: on every log that ends in Stop, continue appends exactly one
\* Start event with the description of the nearest preceding Start event and
\* the clock's reading.
C4_ContinueAlwaysAppends ==
    (last.cmd = "continue" /\ EndsIn(last.pre, "Stop")) =>
        \E i \in 1..Len(last.pre) :
            /\ NearestStart(last.pre, i)
            /\ Appended(<< TrackingEvent("Start", description(last.pre[i]), last.t1) >>)

\* C4, amended: on a log that ends in Stop and holds a Start event, continue
\* appends exactly one Start event with the description of the nearest
\* preceding Start event and the clock's reading; on a log that ends in Stop
\* and holds no Start event, continue leaves the log unchanged.
C4_ContinueAppendsNearest ==
    (last.cmd = "continue" /\ EndsIn(last.pre, "Stop")) =>
        /\ ~last.panic
        /\ Starts(last.pre) # {} =>
               \E i \in 1..Len(last.pre) :
                   /\ NearestStart(last.pre, i)
                   /\ Appended(<< TrackingEvent("Start", description(last.pre[i]),
                                                last.t1) >>)
        /\ Starts(last.pre) = {} => Log = last.pre

\* continue has run on a log whose two Start events differ in description
C4_Witness ==
    /\ last.cmd = "continue" /\ EndsIn(last.pre, "Stop")
    /\ \E i, j \in Starts(last.pre) :
           i < j /\ description(last.pre[i]) # description(last.pre[j])
    /\ Len(Log) = Len(last.pre) + 1

\* the description of the event that is running in the log the run loaded
Running == description(last.pre[Len(last.pre)])
AutoInsertCase ==
    last.cmd = "start" /\ EndsIn(last.pre, "Start") /\ last.auto /\ is_none(last.at)

\* C5: when the log ends in Start, auto_insert_stop is enabled, --at is
\* absent and the description differs from the running one, start appends
\* exactly a Stop without description at the clock's reading and then a Start
\* with the requested description, the Stop not later than the Start.
C5_AutoInsertTwo ==
    (AutoInsertCase /\ last.description # Running) =>
        /\ ~last.panic
        /\ Len(Log) = Len(last.pre) + 2
        /\ IsPrefix(last.pre, Log)
        /\ Log[Len(Log) - 1] = TrackingEvent("Stop", None, last.t1)
        /\ is_start(Log[Len(Log)])
        /\ description(Log[Len(Log)]) = last.description
        /\ Log[Len(Log) - 1].time <= Log[Len(Log)].time

\* an auto-insert whose Start was read from the clock later than its Stop
C5_Witness ==
    /\ AutoInsertCase /\ last.description # Running
    /\ is_some(last.description) /\ is_some(Running)
    /\ Len(Log) = Len(last.pre) + 2
    /\ Log[Len(Log) - 1].time < Log[Len(Log)].time

\* C6 as stated: when the log ends in Start, auto_insert_stop is enabled and
\* --at is absent, start with the description of the running event, present
\* or absent, reports "already running" and leaves the log unchanged.
C6_SameDescriptionRejected ==
    (AutoInsertCase /\ last.description = Running) =>
        Log = last.pre /\ last.msg = "already running with this description"

\* the user-state errors of start, stop and continue
UserStateError ==
    \/ last.cmd = "start" /\ EndsIn(last.pre, "Start") /\ last.auto /\ is_some(last.at)
    \/ last.cmd = "start" /\ EndsIn(last.pre, "Start") /\ ~last.auto
    \/ last.cmd = "stop" /\ EndsIn(last.pre, "Stop")
    \/ last.cmd = "continue" /\ EmptyOrEndsIn(last.pre, "Start")

\* C7: a run that ends in a user-state error leaves the log as it was, says
\* so, and does not panic.
C7_ErrorsAreNoOps ==
    UserStateError => Log = last.pre /\ ~last.panic /\ last.msg # ""

\* start was rejected although auto_insert_stop is disabled and --at absent
C7_Witness ==
    /\ last.cmd = "start" /\ EndsIn(last.pre, "Start") /\ ~last.auto
    /\ is_none(last.at) /\ last.description # Running
    /\ Log = last.pre

ContiguousRun(view, seq) ==
    \E i \in 0..(Len(seq) - Len(view)) : view = SubSeq(seq, i + 1, i + Len(view))
\* view reads Start, Stop, Start, ...
WellFormed(view) == Alternates(view) /\ (view = << >> \/ is_start(view[1]))

\* C9 as stated: for every log that start, stop and continue produce and every
\* filter specification, the view that filter returns is a run of
\* consecutive events of the log, alternates and begins with a Start.
C9_ViewContiguousWellFormed ==
    (last.cmd = "list" /\ ~last.panic) =>
        ContiguousRun(last.view, last.pre) /\ WellFormed(last.view)

\* the local date of instant t lies in the Monday-to-Sunday week of the
\* local date of clock
InWeekOf(clock, t) ==
    LET monday == today(clock) - num_days_from_monday(today(clock))
    IN  date_of(naive_local(t)) \in monday..(monday + 6)

\* C10 as stated: on every local date, filter with the token "week" completes
\* and returns the events of the current Monday-to-Sunday week (less the
\* leading Stop events), whatever from and to are and whatever the events'
\* descriptions.
C10_WeekView ==
    (last.cmd = "list" /\ last.filter = Some(StrWeek)) =>
        /\ ~last.panic
        /\ \A i \in 1..Len(last.view) : InWeekOf(last.t1, last.view[i].time)
        /\ LET inWeek(e) == InWeekOf(last.t1, e.time)
           IN  last.view = skip_while_stop(SelectSeq(last.pre, inWeek))

\* seq without its leading Stop events: what is left of seq from its first
\* Start event on
FromFirstStart(seq) ==
    IF Starts(seq) = {} THEN << >>
    ELSE SubSeq(seq, CHOOSE i \in Starts(seq) : \A j \in Starts(seq) : i <= j, Len(seq))

\* C11: with the token "all", whatever (parseable or absent) from and to
\* are, filter returns the whole log in its order less its leading Stop
\* events: no event is dropped by the range or for its description.
C11_AllReturnsLog ==
    (last.cmd = "list" /\ last.filter = Some(StrAll)) =>
        ~last.panic /\ last.view = FromFirstStart(last.pre)

\* "all" with a from that lies after an event of the view, which holds an
\* event without description, on a log that begins with a Stop
C11_Witness ==
    /\ last.cmd = "list" /\ last.filter = Some(StrAll)
    /\ last.from = Some(TimeStr(None, <<9, 0, 30>>)) /\ is_some(last.to)
    /\ last.pre # << >> /\ is_stop(last.pre[1])
    /\ \E i \in 1..Len(last.view) :
           /\ is_none(description(last.view[i]))
           /\ time_of(naive_local(last.view[i].time)) < from_hms(9, 0, 30)

\* the date the string str names, today's for a run at clock when it names
\* none
StrDate(str, clock) ==
    IF is_some(str.date)
    THEN from_ymd(unwrap(str.date)[1], unwrap(str.date)[2], unwrap(str.date)[3])
    ELSE today(clock)
\* The range of the last run when --to is absent, in seconds of local time:
\* from the start of today, the start of the date --from names, or the
\* instant --from names, to the last second of that same date.
RangeLo ==
    IF is_none(last.from) THEN today(last.t1) * SecPerDay
    ELSE StrDate(unwrap(last.from), last.t1) * SecPerDay
             + from_hms(Field(unwrap(last.from), 1), Field(unwrap(last.from), 2),
                        Field(unwrap(last.from), 3))
RangeHi == (RangeLo \div SecPerDay) * SecPerDay + from_hms(23, 59, 59)
InRange(e) == RangeLo <= naive_local(e.time) /\ naive_local(e.time) <= RangeHi
\* pat occurs in str
HasSubstring(str, pat) == \E i, j \in 1..Len(str) : SubSeq(str, i, j) = pat
\* the description of e contains the text t
Described(e, t) == is_some(description(e)) /\ HasSubstring(unwrap(description(e)), t)
TextToken == is_some(last.filter) /\ last.filter \notin {Some(StrAll), Some(StrWeek)}

\* the log holds one pair described a and then one pair described b
PairThenPair(seq, a, b) ==
    /\ Len(seq) = 4
    /\ is_start(seq[1]) /\ is_stop(seq[2]) /\ is_start(seq[3]) /\ is_stop(seq[4])
    /\ description(seq[1]) = Some(a) /\ description(seq[2]) = Some(a)
    /\ description(seq[3]) = Some(b) /\ description(seq[4]) = Some(b)

\* C12: with a text token t, filter keeps an event exactly when it passes
\* the range test and has a description that contains t (events without a
\* description are left out), less the leading Stop events; on a log of one
\* pair described "meeting" and one pair described "coding", all of today,
\* the token "meeting" returns the Start and the Stop of the meeting pair
\* and nothing of the coding pair.
C12_TextFilter ==
    (last.cmd = "list" /\ TextToken /\ is_none(last.to)) =>
        /\ ~last.panic
        /\ LET t == unwrap(last.filter)
               kept(e) == InRange(e) /\ Described(e, t)
           IN  last.view = FromFirstStart(SelectSeq(last.pre, kept))
        /\ \A i \in {1, 3} :
               ( /\ last.filter = Some(StrMeeting) /\ is_none(last.from)
                 /\ \/ PairThenPair(last.pre, StrMeeting, StrCoding)
                    \/ PairThenPair(last.pre, StrCoding, StrMeeting)
                 /\ \A k \in 1..4 : date_of(naive_local(last.pre[k].time)) = today(last.t1)
                 /\ description(last.pre[i]) = Some(StrMeeting) )
               => last.view = << last.pre[i], last.pre[i + 1] >>

\* "meeting" on a log of a coding pair followed by a meeting pair, all today
C12_Witness ==
    /\ last.cmd = "list" /\ last.filter = Some(StrMeeting) /\ is_none(last.from)
    /\ PairThenPair(last.pre, StrCoding, StrMeeting)
    /\ last.view = << last.pre[3], last.pre[4] >>

\* "in" has dropped a Stop without description between two kept events
C12_WitnessUndescribed ==
    /\ last.cmd = "list" /\ last.filter = Some(StrIn)
    /\ Len(last.pre) >= 3 /\ is_none(description(last.pre[2]))
    /\ Len(last.view) >= 2 /\ last.view[1] = last.pre[1] /\ last.view[2] = last.pre[3]

\* the resolved bounds of the last run and the events of the log that pass
\* the range and text tests
LastBounds ==
    IF last.filter = Some(StrWeek) THEN week_bounds(last.t1)
    ELSE given_bounds(last.from, last.to, last.filter, last.t1)
Survivors == retained(last.pre, unwrap(LastBounds))

\* C13: the view that filter returns is empty or begins with a Start event:
\* it is what is left of the events that pass the range and text tests
\* once their leading Stop events, all of them and nothing else, are dropped.
C13_LeadingStopsTrimmed ==
    (last.cmd = "list" /\ ~last.panic) =>
        /\ last.view = << >> \/ is_start(last.view[1])
        /\ \E k \in 0..Len(Survivors) :
               /\ last.view = SubSeq(Survivors, k + 1, Len(Survivors))
               /\ \A i \in 1..k : is_stop(Survivors[i])

\* two Stop events in a row passed the tests ahead of the first Start
C13_Witness ==
    /\ last.cmd = "list" /\ ~last.panic
    /\ Len(Survivors) >= 3
    /\ is_stop(Survivors[1]) /\ is_stop(Survivors[2]) /\ is_start(Survivors[3])
    /\ last.view = SubSeq(Survivors, 3, Len(Survivors))

\* C14: when the token is neither "week" nor "all" and --to is absent, the
\* range is today from 00:00:00 to 23:59:59 when --from is absent, the whole
\* date that --from names, or from the instant that --from names to 23:59:59
\* of its date; an event passes exactly when its instant, to the second,
\* lies in the range, bounds included.
C14_DefaultRange ==
    (last.cmd = "list" /\ last.filter \notin {Some(StrAll), Some(StrWeek)}
                       /\ is_none(last.to)) =>
        /\ ~last.panic
        /\ \A i \in 1..Len(last.view) : InRange(last.view[i])
        /\ LET kept(e) == InRange(e) /\ (is_some(last.filter) => Described(e, unwrap(last.filter)))
           IN  last.view = FromFirstStart(SelectSeq(last.pre, kept))

\* --from names an instant: an event on the bound is kept, an earlier one of
\* the same day is not
C14_Witness ==
    /\ last.cmd = "list" /\ is_none(last.filter) /\ is_none(last.to)
    /\ last.from = Some(TimeStr(None, <<9, 0, 45>>))
    /\ \E i \in 1..Len(last.pre) :
           /\ date_of(naive_local(last.pre[i].time)) = today(last.t1)
           /\ ~InRange(last.pre[i])
    /\ last.view # << >> /\ naive_local(last.view[1].time) = RangeLo

\* --from names a date that is not today
C14_WitnessDate ==
    /\ last.cmd = "list" /\ is_none(last.filter) /\ is_none(last.to)
    /\ is_some(last.from) /\ is_some(unwrap(last.from).date)
    /\ StrDate(unwrap(last.from), last.t1) # today(last.t1)
    /\ last.view # << >>

RECURSIVE SumTime(_, _)
\* the sum of the instants of the events of seq at the indices S
SumTime(seq, S) ==
    IF S = {} THEN 0
    ELSE LET i == CHOOSE j \in S : TRUE
         IN  seq[i].time + SumTime(seq, S \ {i})
Stops(seq) == {i \in 1..Len(seq) : is_stop(seq[i])}
Odd(n) == n % 2 = 1
\* the local time of day of instant t is h:m:s
At(t, h, m, s) == time_of(naive_local(t)) = from_hms(h, m, s)
ShowRun == last.cmd = "show" /\ ~last.panic

\* C15: with include_seconds, on a view that alternates and begins with a
\* Start, the total is the sum of stop - start over the complete pairs, plus
\* now - start for the last Start when the count is odd: the instants of the
\* Stop events less the instants of the Start events, plus now when the
\* count is odd.  [Start 09:00:00, Stop 09:30:00] gives 30 minutes and
\* [Start 09:00:00] with now = 09:45:00 gives 45 minutes.
C15_TotalDuration ==
    (ShowRun /\ last.include_seconds /\ WellFormed(last.view)) =>
        LET v == last.view
            open == Odd(Len(v))
        IN  /\ last.work_time =
                   Duration(SumTime(v, Stops(v)) - SumTime(v, Starts(v))
                                + (IF open THEN last.utc_now.secs ELSE 0),
                            IF open THEN last.utc_now.nanos ELSE 0)
            /\ (Len(v) = 2 /\ At(v[1].time, 9, 0, 0) /\ At(v[2].time, 9, 30, 0))
                   => last.work_time = Duration(30 * SecPerMin, 0)
            /\ (Len(v) = 1 /\ At(v[1].time, 9, 0, 0) /\ At(last.utc_now.secs, 9, 45, 0)
                            /\ last.utc_now.nanos = 0)
                   => last.work_time = Duration(45 * SecPerMin, 0)

\* a pair and a running Start, the clock between two seconds
C15_Witness ==
    /\ ShowRun /\ last.include_seconds /\ WellFormed(last.view)
    /\ Len(last.view) = 3 /\ last.utc_now.nanos > 0
    /\ last.view[1].time < last.view[2].time
    /\ last.view[3].time < last.utc_now.secs

\* [Start 09:00:00] shown at 09:45:00
C15_WitnessRunning ==
    /\ ShowRun /\ last.include_seconds
    /\ Len(last.view) = 1 /\ is_start(last.view[1]) /\ At(last.view[1].time, 9, 0, 0)
    /\ last.utc_now = Instant(last.t1, 0) /\ At(last.t1, 9, 45, 0)
    /\ last.work_time = Duration(45 * SecPerMin, 0)

\* [Start 09:00:00, Stop 09:30:00]
C15_WitnessPair ==
    /\ ShowRun /\ last.include_seconds
    /\ Len(last.view) = 2 /\ is_start(last.view[1]) /\ is_stop(last.view[2])
    /\ At(last.view[1].time, 9, 0, 0) /\ At(last.view[2].time, 9, 30, 0)
    /\ last.work_time = Duration(30 * SecPerMin, 0)

\* instant t, a count of whole seconds, cut to its minute
MinuteOf(t) == (t \div SecPerMin) * SecPerMin
\* seq with the instant of every event cut to its minute
CutToMinutes(seq) == [i \in 1..Len(seq) |-> [seq[i] EXCEPT !.time = MinuteOf(@)]]

\* C16 as stated: without include_seconds, on a view that alternates and
\* begins with a Start, the total is the sum of the differences of the
\* instants cut to their minute (the Start events, the Stop events and now
\* for a running Start), and so a whole number of minutes.
C16_WholeMinutes ==
    (ShowRun /\ ~last.include_seconds /\ WellFormed(last.view)) =>
        LET v == CutToMinutes(last.view)
            open == Odd(Len(v))
        IN  /\ last.work_time =
                   Duration(SumTime(v, Stops(v)) - SumTime(v, Starts(v))
                                + (IF open THEN MinuteOf(last.utc_now.secs) ELSE 0),
                            0)
            /\ last.work_time.secs % SecPerMin = 0 /\ last.work_time.nanos = 0

\* a time goal in minutes
MinutesOf(goal) == goal.hours * MinPerHour + goal.minutes
\* the remaining minutes that the run printed as hours and minutes
Reported == unwrap(last.time)[1] * MinPerHour + unwrap(last.time)[2]
\* the events of the whole log that fall in the current week, from their
\* first Start on, and the time accumulated over them
WeekOfLog ==
    LET inWeek(e) == InWeekOf(last.t1, e.time)
    IN  FromFirstStart(SelectSeq(last.pre, inWeek))
WeekTime == get_time_from_events(WeekOfLog, last.include_seconds, last.utc_now)
NoScope == is_none(last.filter) /\ is_none(last.from) /\ is_none(last.to)

\* C17 as stated: a remaining-time query without token, from and to reports
\* the smaller of the daily goal less the time accumulated today and the
\* weekly goal less the time accumulated over all events of the log that
\* fall in the current Monday-to-Sunday week.
C17_TighterOfDayAndWeek ==
    (ShowRun /\ last.remaining /\ NoScope /\ is_some(last.time)) =>
        Reported = min(MinutesOf(last.settings.time_goal.daily)
                           - num_minutes(last.work_time),
                       MinutesOf(last.settings.time_goal.weekly)
                           - num_minutes(WeekTime))

\* C18: get_remaining_minutes returns the goal in minutes less
\* hours * 60 + minutes, the weekly goal exactly when the scope is "week" and
\* the daily goal for every other scope; the result is signed.  A daily goal
\* of 8h0m with 6h30m accumulated gives 90.
C18_RemainingMinutes ==
    (last.cmd = "remaining") =>
        LET hours == unwrap(last.time)[1]
            minutes == unwrap(last.time)[2]
            goal == IF last.filter = Some(StrWeek) THEN last.settings.time_goal.weekly
                    ELSE last.settings.time_goal.daily
        IN  /\ last.value = MinutesOf(goal) - (hours * MinPerHour + minutes)
            /\ (goal = TimeGoal(8, 0) /\ hours = 6 /\ minutes = 30) => last.value = 90

\* the weekly goal of 40h0m is exceeded by 1h30m
C18_Witness ==
    /\ last.cmd = "remaining" /\ last.filter = Some(StrWeek)
    /\ last.settings.time_goal.weekly = TimeGoal(40, 0)
    /\ last.settings.time_goal.daily # TimeGoal(40, 0)
    /\ last.time = Some(<<41, 30, 0>>) /\ last.value = -90

\* a daily goal of 8h0m with 6h30m accumulated gives 90
C18_WitnessDaily ==
    /\ last.cmd = "remaining" /\ last.filter = Some(<< >>)
    /\ last.settings.time_goal.daily = TimeGoal(8, 0)
    /\ last.time = Some(<<6, 30, 0>>) /\ last.value = 90

\* from or to is set, or the token is neither absent nor "week"
ScopeSet ==
    \/ is_some(last.from) \/ is_some(last.to)
    \/ is_some(last.filter) /\ last.filter # Some(StrWeek)

C19_WitnessAccepted ==
    /\ ShowRun /\ last.remaining /\ last.filter = Some(StrWeek) /\ is_none(last.from)
    /\ last.pre # << >> /\ last.msg = "" /\ is_some(last.time)

\* C20: after any sequence of start, stop and continue runs, status exits
\* with 0 exactly when the log ends in a Start and with one and the same
\* non-zero status when it ends in a Stop or is empty; no step that status
\* takes changes the data file or its log.
C20_StatusExitCode ==
    /\ [](last.cmd = "status" =>
             /\ last.value = 0 <=> EndsIn(last.pre, "Start")
             /\ ~EndsIn(last.pre, "Start") => last.value = 255
             /\ Log = last.pre)
    /\ [][last'.cmd = "status" => file' = file]_vars

\* status on a log of two events that ends in a Stop
C20_Witness ==
    /\ last.cmd = "status" /\ Len(last.pre) = 2 /\ EndsIn(last.pre, "Stop")
    /\ last.value # 0 /\ Log = last.pre

\* status while tracking is active
C20_WitnessActive ==
    /\ last.cmd = "status" /\ EndsIn(last.pre, "Start") /\ last.value = 0

\* the run is a start or a stop whose --at is written in no supported layout
BadAt ==
    /\ last.cmd \in {"start", "stop"}
    /\ is_some(last.at) /\ ~Supported(unwrap(last.at))
\* the log the run loaded is one the command appends to
WouldAppend ==
    \/ last.cmd = "start" /\ EmptyOrEndsIn(last.pre, "Stop")
    \/ last.cmd = "stop" /\ EmptyOrEndsIn(last.pre, "Start")
\* the run panicked: nothing was appended and the data file is as it was
HardFailure == last.panic /\ Log = last.pre /\ file = last.loaded

\* C21 as stated: a start or stop whose --at matches no supported layout
\* ends in a hard failure, appends nothing and does not write the data file,
\* whatever the log and the auto_insert_stop setting.
C21_BadAtAlwaysFails == BadAt => HardFailure

\* C21, amended: a start or stop whose --at matches no supported layout ends
\* in a hard failure, with nothing appended and the data file not written,
\* when the log is one the command appends to (empty or ending in Stop for
\* start, empty or ending in Start for stop), under either auto_insert_stop
\* setting; on any other log the string is never parsed: the run reports its
\* user-state message, does not panic, and writes the unchanged log.
C21_BadAtFailsWhenParsed ==
    BadAt => IF WouldAppend THEN HardFailure
             ELSE /\ ~last.panic /\ last.msg # ""
                  /\ Log = last.pre /\ file = write_data(last.pre)

\* start --at with an unsupported string panicked on a log ending in Stop
C21_Witness ==
    /\ BadAt /\ last.cmd = "start" /\ EndsIn(last.pre, "Stop")
    /\ last.panic /\ file = last.loaded

\* stop --at with an unsupported string was rejected on a log ending in Stop
C21_WitnessRejected ==
    /\ BadAt /\ last.cmd = "stop" /\ EndsIn(last.pre, "Stop")
    /\ ~last.panic /\ last.msg = "already stopped"

\* C22 as stated: every non-empty log begins with a Start event, i.e. its
\* events are Start at the odd positions and Stop at the even ones.
C22_BeginsWithStart == \A i \in 1..Len(Log) : is_start(Log[i]) <=> Odd(i)

\* C22, amended: the first event of the log is the one the first start or
\* stop on the empty log appended, a Start for start and a Stop for stop,
\* and no later run changes it; from that first event on the kinds
\* alternate, so the log reads Start, Stop, Start, ... or Stop, Start,
\* Stop, ...
C22_FirstEventKept ==
    /\ (last.pre = << >> /\ last.cmd \in {"start", "stop"} /\ ~last.panic) =>
           /\ Log # << >>
           /\ is_start(Log[1]) <=> last.cmd = "start"
    /\ (last.pre = << >> /\ last.cmd = "continue") => Log = << >>
    /\ last.pre # << >> => Log # << >> /\ Log[1] = last.pre[1]
    /\ \A i \in 2..Len(Log) : is_start(Log[i]) <=> is_stop(Log[i - 1])

\* a log of four events that begins with the Stop of a stop on the empty log
C22_Witness ==
    /\ Len(Log) = 4 /\ is_stop(Log[1]) /\ is_start(Log[2])
    /\ is_stop(Log[3]) /\ is_start(Log[4])
    /\ last.cmd \in {"start", "continue"}

\* a log of four events that begins with a Start
C22_WitnessStart ==
    /\ Len(Log) = 4 /\ is_start(Log[1]) /\ last.cmd = "stop"

\* the run is a start, stop or continue that ended with a message to the
\* user and without a panic
Rejected ==
    /\ last.cmd \in {"start", "stop", "continue"}
    /\ last.msg # "" /\ ~last.panic

\* C23: a start, stop or continue that is rejected with a user-state message
\* leaves the data file as the run found it, also when the file was missing
\* or corrupt and was loaded as the empty log.
C23_RejectedKeepsFile == Rejected => file = last.loaded

\* tracking is in progress in the view of the last run: its unpaired final
\* event is a Start, and that Start is the last event of the log
InProgress ==
    /\ Odd(Len(last.view))
    /\ is_start(last.view[Len(last.view)])
    /\ last_of(last.pre) = Some(last.view[Len(last.view)])
\* the readings Utc::now() may give
Nows == {Instant(t, nanos) : t \in ShowReadings, nanos \in SubSecs}

\* C24: show adds now - start.instant only when tracking is in progress,
\* i.e. when the unpaired final event of the view is a Start that is also
\* the last event of the log; for every other view (its last Start stopped
\* in the log but outside the view, or its unpaired final event a Stop) the
\* total is the same whatever the clock reads.
C24_OpenTermOnlyWhenRunning ==
    (ShowRun /\ ~last.remaining /\ ~InProgress) =>
        \A n \in Nows :
            get_time_from_events(last.view, last.include_seconds, n) = last.work_time
====
